---- MODULE Spec2Model ----
(***************************************************************************)
(* PortfolioPlus (src/app.py): the trade-settlement handler                *)
(* process_transaction over the users / portfolios / transactions tables,  *)
(* the average-cost computation of get_dashboard_holdings, the in-memory   *)
(* TTL cache of finnhub_get / yahoo_chart, the parallel batch fetch        *)
(* fetch_stock_data with its tasks _fetch_one_stock, the series built by   *)
(* yahoo_chart, the sector distribution of get_portfolio_analytics and the *)
(* ladder _market_cap_bucket.  Each has a specification of its own over    *)
(* the one list of variables.                                              *)
(*                                                                         *)
(* Units.  Money is counted in whole currency units (every amount the      *)
(* model feeds in has no fractional part, so the DECIMAL(10,2) columns     *)
(* store it exactly; their range check is modelled).  A request's quantity *)
(* is a Decimal and is counted in 1/QScale shares; the quantity columns    *)
(* are INT, so what is stored is that number rounded to whole shares.      *)
(***************************************************************************)
EXTENDS Integers, Sequences, FiniteSets, TLC

VARIABLES
    wallet_balance,   \* users.wallet_balance of the account
    portfolios,       \* portfolios rows of the account: stock_symbol -> quantity
    transactions,     \* transactions rows of the account, in insertion order
    last,             \* the last request handled and the response it got
    prev,             \* balance and holdings before the last request
    workers,          \* the requests in flight, one per server thread or process
    cache,            \* _cache: cache_key -> (timestamp, data)
    now,              \* time.time(), in seconds
    lookup,           \* the last cached lookup made and what it did
    fetch,            \* the call of fetch_stock_data in progress and its tasks
    pool,             \* the executor of a call of fetch_stock_data, by counts
    chart,            \* the last call of yahoo_chart: provider series and result
    analytics,        \* the last call of get_portfolio_analytics
    bucket            \* the last call of _market_cap_bucket

ledgerVars == <<wallet_balance, portfolios, transactions, last, prev, workers>>
cacheVars == <<cache, now, lookup>>
batchVars == <<fetch, pool, chart, analytics, bucket>>
vars == <<wallet_balance, portfolios, transactions, last, prev, workers,
          cache, now, lookup, fetch, pool, chart, analytics, bucket>>

---------------------------------------------------------------------------
\* Bounds of the model
MaxLedger == 2      \* requests are fed in while the ledger is shorter
MaxTicks == 2       \* the clock runs up to MaxTicks * CACHE_TTL seconds
QScale == 4         \* a request quantity is a multiple of 1/QScale share

\* Program constants
SeedBalance == 10000            \* wallet_balance DECIMAL(10,2) DEFAULT 10000.00
NumericLimit == 100000000       \* DECIMAL(10,2): |value| < 10^8
UserId == 1                     \* session['user_id'] of the account
CACHE_TTL == 300                \* CACHE_TTL = 300  # 5 minutes

Symbols == {"A", "B"}
\* 1/QScale share, half a share (to the 1/QScale below), one share
QuantityInputs == {1, QScale \div 2, QScale}
\* a negative amount, an ordinary amount, an amount no wallet can hold
AmountInputs == {-20000, 100, NumericLimit}
\* 0: the database answers every statement; k: statement k of the try block
\* raises (5 is the commit)
FaultPoints == 0 .. 5

\* The requests fed in.  session tells what the session cookie holds: the
\* account's user_id, no user_id, or a user_id with no row in users.
\* Every buy and sell over the inputs above comes from the account; one
\* request from the account has a transaction_type that is neither; one
\* request comes without a login and one from an unknown user (the handler
\* answers these three without reading the other fields).
Trades ==
    [symbol : Symbols, transaction_type : {"buy", "sell"},
     quantity : QuantityInputs, amount : AmountInputs, session : {"account"}]
OtherRequest ==
    [symbol |-> "A", transaction_type |-> "hold", quantity |-> QScale,
     amount |-> 100, session |-> "account"]
AnonymousRequest ==
    [symbol |-> "A", transaction_type |-> "sell", quantity |-> QScale,
     amount |-> 100, session |-> "anonymous"]
UnknownUserRequest ==
    [symbol |-> "A", transaction_type |-> "sell", quantity |-> QScale,
     amount |-> 100, session |-> "unknown"]
Requests == Trades \cup {OtherRequest, AnonymousRequest, UnknownUserRequest}

\* The requests handled at the same time: two of them, each a buy or a sell
\* of one share for the ordinary amount.
WorkerIds == {1, 2}
ConcurrentRequests == {r \in Trades : r.quantity = QScale /\ r.amount = 100}

---------------------------------------------------------------------------
\* The database as the handler sees it

\* numeric -> integer assignment cast of PostgreSQL (quantity INT columns):
\* q/QScale rounded to the nearest integer, ties away from zero
RoundToInt(q) ==
    IF q >= 0 THEN (2 * q + QScale) \div (2 * QScale)
    ELSE -((2 * (-q) + QScale) \div (2 * QScale))

\* DECIMAL(10,2) accepts a value only if its integer part has at most 8 digits
NumericFits(v) == -NumericLimit < v /\ v < NumericLimit

DB == [wallet_balance |-> wallet_balance, portfolios |-> portfolios,
       transactions |-> transactions]

\* UPDATE users SET wallet_balance = %s WHERE user_id = %s
UpdateWalletBalance(db, new_balance) ==
    [db EXCEPT !.wallet_balance = new_balance]

\* INSERT INTO transactions (user_id, stock_symbol, transaction_type, quantity, price)
InsertTransaction(db, symbol, transaction_type, quantity, amount) ==
    [db EXCEPT !.transactions =
        Append(@, [user_id |-> UserId, stock_symbol |-> symbol,
                   transaction_type |-> transaction_type,
                   quantity |-> RoundToInt(quantity), price |-> amount])]

\* SELECT quantity FROM portfolios WHERE user_id = %s AND stock_symbol = %s;
\* fetchone(): <<quantity>> for the row, <<>> for None
SelectQuantity(db, symbol) ==
    IF symbol \in DOMAIN db.portfolios THEN <<db.portfolios[symbol]>> ELSE <<>>

\* UPDATE portfolios SET quantity = %s WHERE user_id = %s AND stock_symbol = %s
UpdatePortfolio(db, symbol, new_quantity) ==
    [db EXCEPT !.portfolios =
        [s \in DOMAIN @ |-> IF s = symbol THEN RoundToInt(new_quantity) ELSE @[s]]]

\* INSERT INTO portfolios (user_id, stock_symbol, quantity) VALUES (%s, %s, %s)
InsertPortfolio(db, symbol, quantity) ==
    [db EXCEPT !.portfolios = (symbol :> RoundToInt(quantity)) @@ @]

\* DELETE FROM portfolios WHERE user_id = %s AND stock_symbol = %s
DeletePortfolio(db, symbol) ==
    [db EXCEPT !.portfolios = [s \in (DOMAIN @) \ {symbol} |-> @[s]]]

\* A rollback that is lost (the statements ran in autocommit mode): the
\* writes made before the exception stay.
RollbackKeepsWrites(snapshot, working) == working

\* conn.rollback(): the database is what it was when the transaction began
Rollback(snapshot, working) == snapshot

\* conn.commit(): the transaction's writes become the database
Commit(snapshot, working) == working

\* One statement of a try block.  x = [db, raised]: the transaction's working
\* state and whether an exception has been raised.  The statement raises when
\* the database fails at this point or rejects the value (ok = FALSE).
Exec(x, point, fault, ok, newdb) ==
    IF x.raised THEN x
    ELSE IF fault = point \/ ~ok THEN [x EXCEPT !.raised = TRUE]
    ELSE [x EXCEPT !.db = newdb]

---------------------------------------------------------------------------
\* process_transaction

Success == [status |-> 200, error |-> "none"]
InsufficientBalance == [status |-> 400, error |-> "Insufficient balance"]
InsufficientStock == [status |-> 200, error |-> "Insufficient stock quantity"]
TransactionFailed == [status |-> 500, error |-> "Transaction failed"]
NotLoggedIn == [status |-> 403, error |-> "User not logged in"]
UserNotFound == [status |-> 404, error |-> "User not found"]

\* What one call leaves behind: the database, the response, whether an
\* exception was raised in the try block, and whether the transaction had
\* already written something when it was raised.
Outcome(snapshot, x, resp) ==
    IF x.raised
    THEN [db |-> Rollback(snapshot, x.db), resp |-> TransactionFailed,
          raised |-> TRUE, dirty |-> x.db # snapshot]
    ELSE [db |-> Commit(snapshot, x.db), resp |-> resp,
          raised |-> FALSE, dirty |-> FALSE]

\* The balance check left out.
SufficientFundsUnchecked(balance, amount) == TRUE

\* if wallet_balance < amount: return 'Insufficient balance', 400
SufficientFunds(balance, amount) == ~(balance < amount)

\* The buy branch.  balance is the value read from users before the branch.
Buy(db, balance, req, fault) ==
    IF ~SufficientFunds(balance, req.amount)
    THEN [db |-> db, resp |-> InsufficientBalance, raised |-> FALSE, dirty |-> FALSE]
    ELSE
    LET new_balance == balance - req.amount
        x0 == [db |-> db, raised |-> FALSE]
        x1 == Exec(x0, 1, fault, NumericFits(new_balance),
                   UpdateWalletBalance(x0.db, new_balance))
        x2 == Exec(x1, 2, fault, NumericFits(req.amount),
                   InsertTransaction(x1.db, req.symbol, req.transaction_type,
                                     req.quantity, req.amount))
        x3 == Exec(x2, 3, fault, TRUE, x2.db)
        portfolio_item == SelectQuantity(x3.db, req.symbol)
        x4 == IF portfolio_item # <<>>
              THEN Exec(x3, 4, fault, TRUE,
                        UpdatePortfolio(x3.db, req.symbol,
                                        portfolio_item[1] * QScale + req.quantity))
              ELSE Exec(x3, 4, fault, TRUE,
                        InsertPortfolio(x3.db, req.symbol, req.quantity))
        x5 == Exec(x4, 5, fault, TRUE, x4.db)
    IN Outcome(db, x5, Success)

\* The check of the held quantity left out: any held symbol can be sold.
EnoughSharesIfHeld(portfolio_entry, quantity) == portfolio_entry # <<>>

\* if not portfolio_entry or Decimal(portfolio_entry[0]) < quantity
EnoughShares(portfolio_entry, quantity) ==
    portfolio_entry # <<>> /\ ~(portfolio_entry[1] * QScale < quantity)

\* The sell branch.
Sell(db, balance, req, fault) ==
    LET x0 == [db |-> db, raised |-> FALSE]
        x1 == Exec(x0, 1, fault, TRUE, x0.db)
        portfolio_entry == SelectQuantity(x1.db, req.symbol)
    IN
    IF ~x1.raised /\ ~EnoughShares(portfolio_entry, req.quantity)
    THEN [db |-> Rollback(db, x1.db), resp |-> InsufficientStock,
          raised |-> FALSE, dirty |-> FALSE]
    ELSE
    LET new_quantity == IF x1.raised THEN 0
                        ELSE portfolio_entry[1] * QScale - req.quantity
        x2 == IF new_quantity > 0
              THEN Exec(x1, 2, fault, TRUE,
                        UpdatePortfolio(x1.db, req.symbol, new_quantity))
              ELSE Exec(x1, 2, fault, TRUE, DeletePortfolio(x1.db, req.symbol))
        new_balance == balance + req.amount
        x3 == Exec(x2, 3, fault, NumericFits(new_balance),
                   UpdateWalletBalance(x2.db, new_balance))
        x4 == Exec(x3, 4, fault, NumericFits(req.amount),
                   InsertTransaction(x3.db, req.symbol, req.transaction_type,
                                     req.quantity, req.amount))
        x5 == Exec(x4, 5, fault, TRUE, x4.db)
    IN Outcome(db, x5, Success)

\* The handler from the balance read on: any other transaction_type falls
\* through both branches to the final return.
Settle(db, balance, req, fault) ==
    IF req.transaction_type = "buy" THEN Buy(db, balance, req, fault)
    ELSE IF req.transaction_type = "sell" THEN Sell(db, balance, req, fault)
    ELSE [db |-> db, resp |-> Success, raised |-> FALSE, dirty |-> FALSE]

\* The whole handler: the session check, the balance read (None when the
\* user has no row), then the branches.
HandleRequest(db, req, fault) ==
    IF req.session = "anonymous"
    THEN [db |-> db, resp |-> NotLoggedIn, raised |-> FALSE, dirty |-> FALSE]
    ELSE IF req.session = "unknown"
    THEN [db |-> db, resp |-> UserNotFound, raised |-> FALSE, dirty |-> FALSE]
    ELSE Settle(db, db.wallet_balance, req, fault)

---------------------------------------------------------------------------
\* The account after init_db / register: the seed balance, nothing held,
\* nothing traded.
NoRequest == [symbol |-> "A", transaction_type |-> "none", quantity |-> 0,
              amount |-> 0, session |-> "account"]

\* No cached lookup has been made yet.
NoLookup == [fn |-> "none", key |-> "none", at |-> 0, fetched |-> FALSE,
             stored |-> FALSE, result |-> "none"]

Idle == [pc |-> "idle", req |-> NoRequest, wallet_balance |-> 0]

\* Nothing else has been called yet.
NoPool == [pc |-> "idle", symbols |-> 0, max_workers |-> 0, submitted |-> 0,
           threads |-> 0, executing |-> 0, completed |-> 0]
NoChart == [timestamps |-> <<>>, close |-> <<>>, volume |-> <<>>,
            result |-> <<>>]
NoAnalytics == [session |-> "none", portfolio |-> <<>>, status |-> 0,
                sector_distribution |-> <<>>, total_value |-> 0,
                provider_raised |-> FALSE]
NoBucket == [market_cap_usd |-> <<>>, market_cap |-> "none"]

\* No call of fetch_stock_data is in progress.
NoFetch == [pc |-> "idle", stock_symbols |-> <<>>, watchlist_symbols |-> {},
            max_workers |-> 0,
            futures |-> <<>>, stocks_data |-> <<>>, raised |-> FALSE]

Init ==
    /\ wallet_balance = SeedBalance
    /\ portfolios = <<>>
    /\ transactions = <<>>
    /\ last = [req |-> NoRequest, resp |-> Success, raised |-> FALSE, dirty |-> FALSE]
    /\ prev = [wallet_balance |-> SeedBalance, portfolios |-> <<>>]
    /\ workers = [w \in WorkerIds |-> Idle]
    /\ cache = <<>>
    /\ now = 0
    /\ lookup = NoLookup
    /\ fetch = NoFetch
    /\ pool = NoPool
    /\ chart = NoChart
    /\ analytics = NoAnalytics
    /\ bucket = NoBucket

\* One request handled from start to finish, no other request in between.
ProcessTransaction ==
    \E req \in Requests, fault \in FaultPoints :
        /\ Len(transactions) < MaxLedger
        /\ LET r == HandleRequest(DB, req, fault) IN
            /\ wallet_balance' = r.db.wallet_balance
            /\ portfolios' = r.db.portfolios
            /\ transactions' = r.db.transactions
            /\ last' = [req |-> req, resp |-> r.resp, raised |-> r.raised,
                        dirty |-> r.dirty]
        /\ prev' = [wallet_balance |-> wallet_balance, portfolios |-> portfolios]
        /\ UNCHANGED workers
        /\ UNCHANGED cacheVars
        /\ UNCHANGED batchVars

Next == ProcessTransaction

Spec == Init /\ [][Next]_vars

---------------------------------------------------------------------------
\* Requests handled at the same time.  The handler reads the balance with the
\* connection in autocommit mode, before conn.autocommit = False opens the
\* transaction, and takes no lock: another request can be handled between
\* that read and the try block.  The try block itself is taken as one step,
\* which grants it all the isolation the database could give it.

\* cursor.execute("SELECT wallet_balance ..."); wallet_balance = Decimal(result[0])
ReadBalance(w) ==
    \E req \in ConcurrentRequests :
        /\ workers[w].pc = "idle"
        /\ Len(transactions) < MaxLedger
        /\ workers' = [workers EXCEPT ![w] =
              [pc |-> "read", req |-> req, wallet_balance |-> wallet_balance]]
        /\ UNCHANGED <<wallet_balance, portfolios, transactions, last, prev>>
        /\ UNCHANGED cacheVars
        /\ UNCHANGED batchVars

\* The buy or sell branch, run with the balance read earlier.
RunBranch(w) ==
    \E fault \in FaultPoints :
        /\ workers[w].pc = "read"
        /\ LET r == Settle(DB, workers[w].wallet_balance, workers[w].req, fault) IN
            /\ wallet_balance' = r.db.wallet_balance
            /\ portfolios' = r.db.portfolios
            /\ transactions' = r.db.transactions
        /\ workers' = [workers EXCEPT ![w] = Idle]
        /\ UNCHANGED <<last, prev>>
        /\ UNCHANGED cacheVars
        /\ UNCHANGED batchVars

NextConcurrent == \E w \in WorkerIds : ReadBalance(w) \/ RunBranch(w)

SpecConcurrent == Init /\ [][NextConcurrent]_vars

---------------------------------------------------------------------------
\* The cached lookups finnhub_get and yahoo_chart over the dict _cache

\* cache_key = f"{endpoint}:{params}" and f"yahoo_chart:{symbol}:{period}:{interval}":
\* one key per function here
CacheKeys == {"/quote:{'symbol': 'A'}", "yahoo_chart:A:1y:1d"}
\* What the provider can answer: two different payloads, an answer with
\* nothing in it ({} / no chart result), or no answer (the request or the
\* parsing of the response raises)
Payloads == {"v1", "v2"}
FetchOutcomes == Payloads \cup {"empty", "raise"}
\* The clock moves on by one second less than the TTL, or by the TTL
TimeSteps == {CACHE_TTL - 1, CACHE_TTL}

\* The age test off by one: an entry exactly CACHE_TTL old still counts.
CacheFreshInclusive(c, cache_key, t) ==
    cache_key \in DOMAIN c /\ (t - c[cache_key].timestamp) <= CACHE_TTL

\* if cache_key in _cache and (now - _cache[cache_key][0]) < CACHE_TTL
CacheFresh(c, cache_key, t) ==
    cache_key \in DOMAIN c /\ (t - c[cache_key].timestamp) < CACHE_TTL

\* _cache[cache_key] = (now, data)
CacheStore(c, cache_key, t, data) ==
    [k \in (DOMAIN c) \cup {cache_key} |->
        IF k = cache_key THEN [timestamp |-> t, data |-> data] ELSE c[k]]

\* finnhub_get: what is left in _cache and what the caller gets, when the
\* provider answers with outcome.  A request or a resp.json() that raises
\* leaves the function before the store; any parsed answer is stored.
FinnhubGet(c, cache_key, t, outcome) ==
    IF CacheFresh(c, cache_key, t)
    THEN [cache |-> c, fetched |-> FALSE, stored |-> FALSE,
          result |-> c[cache_key].data]
    ELSE IF outcome = "raise"
    THEN [cache |-> c, fetched |-> TRUE, stored |-> FALSE, result |-> "exception"]
    ELSE [cache |-> CacheStore(c, cache_key, t, outcome), fetched |-> TRUE,
          stored |-> TRUE, result |-> outcome]

\* The failure stored like a result: None is put in the cache when the
\* request raises or the answer has no chart result.
YahooChartCachesNone(c, cache_key, t, outcome) ==
    IF CacheFresh(c, cache_key, t)
    THEN [cache |-> c, fetched |-> FALSE, stored |-> FALSE,
          result |-> c[cache_key].data]
    ELSE IF outcome \in {"raise", "empty"}
    THEN [cache |-> CacheStore(c, cache_key, t, "None"), fetched |-> TRUE,
          stored |-> TRUE, result |-> "None"]
    ELSE [cache |-> CacheStore(c, cache_key, t, outcome), fetched |-> TRUE,
          stored |-> TRUE, result |-> outcome]

\* yahoo_chart: an exception is caught and None returned, an answer without
\* a chart result returns None, both before the store; only a chart is stored.
YahooChart(c, cache_key, t, outcome) ==
    IF CacheFresh(c, cache_key, t)
    THEN [cache |-> c, fetched |-> FALSE, stored |-> FALSE,
          result |-> c[cache_key].data]
    ELSE IF outcome \in {"raise", "empty"}
    THEN [cache |-> c, fetched |-> TRUE, stored |-> FALSE, result |-> "None"]
    ELSE [cache |-> CacheStore(c, cache_key, t, outcome), fetched |-> TRUE,
          stored |-> TRUE, result |-> outcome]

IsYahooKey(cache_key) == cache_key = "yahoo_chart:A:1y:1d"

\* One call of finnhub_get or yahoo_chart.
Lookup ==
    \E cache_key \in CacheKeys, outcome \in FetchOutcomes :
        LET r == IF IsYahooKey(cache_key)
                 THEN YahooChart(cache, cache_key, now, outcome)
                 ELSE FinnhubGet(cache, cache_key, now, outcome)
        IN /\ cache' = r.cache
           /\ lookup' = [fn |-> IF IsYahooKey(cache_key) THEN "yahoo_chart"
                                ELSE "finnhub_get",
                         key |-> cache_key, at |-> now, fetched |-> r.fetched,
                         stored |-> r.stored, result |-> r.result]
           /\ UNCHANGED <<now, ledgerVars, batchVars>>

\* Time passes between calls.
Tick ==
    \E d \in TimeSteps :
        /\ now + d <= MaxTicks * CACHE_TTL
        /\ now' = now + d
        /\ UNCHANGED <<cache, lookup, ledgerVars, batchVars>>

NextCache == Lookup \/ Tick

SpecCache == Init /\ [][NextCache]_vars

---------------------------------------------------------------------------
\* _market_cap_bucket.  Capitalization is counted in millions of USD.

LargeCapFloor == 10000      \* market_cap_usd >= 10e9
MidCapFloor == 2000         \* market_cap_usd >= 2e9
SmallCapFloor == 300        \* market_cap_usd >= 300e6

\* dict.get(key, default) on a parsed JSON object
Get(d, key, default) == IF key \in DOMAIN d THEN d[key] ELSE default

\* The ladder with its first rung exclusive: exactly 10e9 is no longer large.
MarketCapBucketExclusive(market_cap_usd) ==
    IF market_cap_usd = <<>> \/ market_cap_usd[1] <= 0 THEN "N/A"
    ELSE IF market_cap_usd[1] > LargeCapFloor THEN "Large cap"
    ELSE IF market_cap_usd[1] >= MidCapFloor THEN "Mid cap"
    ELSE IF market_cap_usd[1] >= SmallCapFloor THEN "Small cap"
    ELSE "Micro cap"

\* _market_cap_bucket(market_cap_usd): <<>> is None, <<m>> is m million USD
MarketCapBucket(market_cap_usd) ==
    IF market_cap_usd = <<>> \/ market_cap_usd[1] <= 0 THEN "N/A"
    ELSE IF market_cap_usd[1] >= LargeCapFloor THEN "Large cap"
    ELSE IF market_cap_usd[1] >= MidCapFloor THEN "Mid cap"
    ELSE IF market_cap_usd[1] >= SmallCapFloor THEN "Small cap"
    ELSE "Micro cap"

---------------------------------------------------------------------------
\* _fetch_one_stock

\* The bodies the provider answers with, by name, and what resp.json() makes
\* of them.  Prices are whole currency units; marketCapitalization and
\* shareOutstanding are the numbers as reported (Finnhub reports millions).
QuoteBodies == {"quote", "quote_c0", "quote_pc0", "empty"}
ProfileBodies == {"profile", "profile_shares", "empty"}
Json(body) ==
    CASE body = "quote" -> [c |-> 12, pc |-> 10]
      [] body = "quote_c0" -> [c |-> 0, pc |-> 10]
      [] body = "quote_pc0" -> [c |-> 12, pc |-> 0]
      [] body = "profile" -> [name |-> "Acme Corp", finnhubIndustry |-> "Technology",
                              marketCapitalization |-> 5000]
      [] body = "profile_shares" -> [name |-> "Acme Corp", shareOutstanding |-> 40]
      [] OTHER -> <<>>

\* if market_cap_usd and 0 < market_cap_usd < 1e7: market_cap_usd * 1e6;
\* from the number as reported to millions of USD
ReportedInMillions == 10000000      \* 1e7
UsdPerMillion == 1000000            \* 1e6
ScaleMarketCap(reported) ==
    IF 0 < reported /\ reported < ReportedInMillions THEN reported
    ELSE reported \div UsdPerMillion

\* market_cap of the record: the profile's marketCapitalization, else
\* current_price * shareOutstanding; scaled; bucketed unless None or 0
MarketCapOf(profile, current_price) ==
    LET direct == IF "marketCapitalization" \in DOMAIN profile
                  THEN <<profile.marketCapitalization>> ELSE <<>>
        derived == IF direct = <<>> /\ current_price # 0
                      /\ "shareOutstanding" \in DOMAIN profile
                   THEN <<current_price * profile.shareOutstanding>>
                   ELSE direct
    IN IF derived = <<>> \/ derived[1] = 0 THEN "N/A"
       ELSE MarketCapBucket(<<ScaleMarketCap(derived[1])>>)

\* if not current_price or not prev_price or prev_price == 0: return None
QuoteIncomplete(quote) == Get(quote, "c", 0) = 0 \/ Get(quote, "pc", 0) = 0

\* The body of the try block once both answers are in: <<>> is None, <<r>>
\* the record.  percent_change is in percent (the prices fed in divide evenly).
StockRecord(symbol, quote, profile, watchlist_symbols) ==
    IF QuoteIncomplete(quote) THEN <<>>
    ELSE LET current_price == quote.c
             prev_price == quote.pc
             gain_loss == current_price - prev_price
         IN <<[symbol |-> symbol,
               company_name |-> Get(profile, "name", symbol),
               prev_price |-> prev_price,
               current_price |-> current_price,
               gain_loss |-> gain_loss,
               percent_change |-> (gain_loss * 100) \div prev_price,
               sector |-> Get(profile, "finnhubIndustry", "N/A"),
               market_cap |-> MarketCapOf(profile, current_price),
               in_watchlist |-> symbol \in watchlist_symbols]>>

\* A task of the pool: queued -> quote -> profile -> done -> collected, or
\* hung in a provider call that never returns.
QueuedTask(symbol) ==
    [symbol |-> symbol, pc |-> "queued", quote |-> "none", result |-> <<>>,
     raised |-> FALSE, propagated |-> FALSE]

\* The except clause missing: the exception leaves the task and is re-raised
\* by future.result().
OnExceptionPropagate(task) ==
    [task EXCEPT !.pc = "done", !.result = <<>>, !.raised = TRUE,
                 !.propagated = TRUE]

\* except Exception as e: print(...); return None
OnException(task) ==
    [task EXCEPT !.pc = "done", !.result = <<>>, !.raised = TRUE]

\* http_requests.get(f"{FINNHUB_BASE}{endpoint}", params=params) passes no
\* timeout: the call answers with a body, raises, or never returns.
FinnhubOutcomes(bodies) == bodies \cup {"raise", "hang"}

\* cache_key = f"{endpoint}:{params}" for params = {'symbol': symbol}
FinnhubKey(endpoint, symbol) == endpoint \o ":{'symbol': '" \o symbol \o "'}"

---------------------------------------------------------------------------
\* fetch_stock_data: one task per symbol on a ThreadPoolExecutor, the results
\* gathered as the tasks complete

STOCKS_FETCH_WORKERS == 15

\* The lists passed in: get_all_stocks() and the rows of watchlist (UNIQUE
\* (user_id, stock_symbol)) hold no symbol twice.
SymbolLists == {<<>>, <<"A">>, <<"B">>, <<"A", "B">>, <<"B", "A">>}
\* watchlist_symbols: none given (the watchlist page), or the watched set
Watchlists == {{}, {"A"}}

\* The limit left out: as many workers as symbols.
MaxWorkersUnlimited(n) == IF n = 0 THEN 1 ELSE n

\* max_workers = min(STOCKS_FETCH_WORKERS, len(stock_symbols)) or 1
MaxWorkers(n) ==
    LET m == IF STOCKS_FETCH_WORKERS < n THEN STOCKS_FETCH_WORKERS ELSE n
    IN IF m = 0 THEN 1 ELSE m

IsExecuting(task) == task.pc \in {"quote", "profile", "hung"}
Executing(futures) == {i \in DOMAIN futures : IsExecuting(futures[i])}

\* fetch_stock_data(stock_symbols): the executor is made and every symbol
\* submitted.
CallFetchStockData ==
    \E stock_symbols \in SymbolLists, watchlist_symbols \in Watchlists :
        /\ fetch.pc \in {"idle", "returned", "raised"}
        /\ fetch' = [pc |-> "gathering", stock_symbols |-> stock_symbols,
                     watchlist_symbols |-> watchlist_symbols,
                     max_workers |-> MaxWorkers(Len(stock_symbols)),
                     futures |-> [i \in DOMAIN stock_symbols |->
                                     QueuedTask(stock_symbols[i])],
                     stocks_data |-> <<>>, raised |-> FALSE]
        /\ UNCHANGED <<ledgerVars, cacheVars, pool, chart, analytics, bucket>>

\* A worker thread takes the oldest queued task; the executor never has more
\* than max_workers threads.
StartTask(i) ==
    /\ i \in DOMAIN fetch.futures
    /\ fetch.pc = "gathering"
    /\ fetch.futures[i].pc = "queued"
    /\ \A j \in 1 .. i - 1 : fetch.futures[j].pc # "queued"
    /\ Cardinality(Executing(fetch.futures)) < fetch.max_workers
    /\ fetch' = [fetch EXCEPT !.futures[i].pc = "quote"]
    /\ UNCHANGED <<ledgerVars, cacheVars, pool, chart, analytics, bucket>>

\* The next finnhub_get of task i: /quote, then /stock/profile2, then the
\* record is built.
RunTask(i) ==
    LET task == fetch.futures[i]
        endpoint == IF task.pc = "quote" THEN "/quote" ELSE "/stock/profile2"
        cache_key == FinnhubKey(endpoint, task.symbol)
        bodies == IF task.pc = "quote" THEN QuoteBodies ELSE ProfileBodies
    IN
    /\ i \in DOMAIN fetch.futures
    /\ fetch.pc = "gathering"
    /\ task.pc \in {"quote", "profile"}
    /\ \E outcome \in FinnhubOutcomes(bodies) :
        IF ~CacheFresh(cache, cache_key, now) /\ outcome = "hang"
        THEN /\ fetch' = [fetch EXCEPT !.futures[i].pc = "hung"]
             /\ UNCHANGED cache
        ELSE LET r == FinnhubGet(cache, cache_key, now, outcome) IN
             /\ cache' = r.cache
             /\ fetch' = [fetch EXCEPT !.futures[i] =
                   IF r.result = "exception" THEN OnException(task)
                   ELSE IF task.pc = "quote"
                   THEN [task EXCEPT !.pc = "profile", !.quote = r.result]
                   ELSE [task EXCEPT !.pc = "done",
                            !.result = StockRecord(task.symbol, Json(task.quote),
                                                   Json(r.result),
                                                   fetch.watchlist_symbols)]]
    /\ UNCHANGED <<now, lookup, ledgerVars, pool, chart, analytics, bucket>>

\* if result is not None: stocks_data.append(result)
AppendResult(stocks_data, result) ==
    IF result # <<>> THEN Append(stocks_data, result[1]) ELSE stocks_data

\* for future in as_completed(future_to_symbol): result = future.result() ...
\* future.result() re-raises what the task raised; the with block then waits
\* for the other tasks and the exception leaves fetch_stock_data.
Gather(i) ==
    /\ i \in DOMAIN fetch.futures
    /\ fetch.pc = "gathering"
    /\ fetch.futures[i].pc = "done"
    /\ fetch' = IF fetch.futures[i].propagated
                THEN [fetch EXCEPT !.futures[i].pc = "collected", !.raised = TRUE]
                ELSE [fetch EXCEPT !.futures[i].pc = "collected",
                         !.stocks_data = AppendResult(@, fetch.futures[i].result)]
    /\ UNCHANGED <<ledgerVars, cacheVars, pool, chart, analytics, bucket>>

\* return stocks_data, once as_completed is exhausted and the executor shut
\* down (every task has completed)
ReturnStocksData ==
    /\ fetch.pc = "gathering"
    /\ \A i \in DOMAIN fetch.futures : fetch.futures[i].pc = "collected"
    /\ fetch' = [fetch EXCEPT !.pc = IF fetch.raised THEN "raised" ELSE "returned"]
    /\ UNCHANGED <<ledgerVars, cacheVars, pool, chart, analytics, bucket>>

NextFetch ==
    \/ CallFetchStockData
    \/ \E i \in DOMAIN fetch.futures : StartTask(i) \/ RunTask(i) \/ Gather(i)
    \/ ReturnStocksData

SpecFetch == Init /\ [][NextFetch]_vars

\* Every thread of the pool and the coordinator keep running: a task that can
\* take its next step takes it, a completed future is gathered, and the call
\* returns when it can.  Nothing obliges the provider to answer.
TaskIds == 1 .. 2
SpecFetchFair ==
    /\ SpecFetch
    /\ \A i \in TaskIds : WF_vars(StartTask(i) \/ RunTask(i) \/ Gather(i))
    /\ WF_vars(ReturnStocksData)

---------------------------------------------------------------------------
\* The executor of fetch_stock_data for longer lists: the tasks are counted,
\* not told apart (what a task does is in RunTask).

MaxSymbolCount == 17    \* len(stock_symbols) of a call is at most this

Queued(p) == p.submitted - p.executing - p.completed

\* max_workers = ...; with ThreadPoolExecutor(max_workers=max_workers)
CallWithSymbols ==
    \E n \in 0 .. MaxSymbolCount :
        /\ pool.pc \in {"idle", "returned"}
        /\ pool' = [pc |-> IF n = 0 THEN "gathering" ELSE "submitting",
                    symbols |-> n, max_workers |-> MaxWorkers(n),
                    submitted |-> 0, threads |-> 0, executing |-> 0,
                    completed |-> 0]
        /\ UNCHANGED <<ledgerVars, cacheVars, fetch, chart, analytics, bucket>>

\* executor.submit(_fetch_one_stock, sym, watchlist_symbols) for the next
\* symbol: the work item is queued, and the executor starts a thread unless it
\* has max_workers threads already or counts on a thread that is not running
\* a task.
Submit ==
    \E spawn \in BOOLEAN :
        /\ pool.pc = "submitting"
        /\ IF spawn THEN pool.threads < pool.max_workers
           ELSE pool.threads = pool.max_workers \/ pool.threads > pool.executing
        /\ pool' = [pool EXCEPT
              !.submitted = @ + 1,
              !.threads = IF spawn THEN @ + 1 ELSE @,
              !.pc = IF pool.submitted + 1 = pool.symbols THEN "gathering" ELSE @]
        /\ UNCHANGED <<ledgerVars, cacheVars, fetch, chart, analytics, bucket>>

\* A thread of the executor that is running no task takes a queued work item.
TakeTask ==
    /\ pool.executing < pool.threads
    /\ Queued(pool) > 0
    /\ pool' = [pool EXCEPT !.executing = @ + 1]
    /\ UNCHANGED <<ledgerVars, cacheVars, fetch, chart, analytics, bucket>>

\* _fetch_one_stock returns (a record or None) on its thread.
FinishTask ==
    /\ pool.executing > 0
    /\ pool' = [pool EXCEPT !.executing = @ - 1, !.completed = @ + 1]
    /\ UNCHANGED <<ledgerVars, cacheVars, fetch, chart, analytics, bucket>>

\* as_completed has yielded every future; return stocks_data
PoolReturn ==
    /\ pool.pc = "gathering"
    /\ pool.completed = pool.symbols
    /\ pool' = [pool EXCEPT !.pc = "returned"]
    /\ UNCHANGED <<ledgerVars, cacheVars, fetch, chart, analytics, bucket>>

NextPool == CallWithSymbols \/ Submit \/ TakeTask \/ FinishTask \/ PoolReturn

SpecPool == Init /\ [][NextPool]_vars

---------------------------------------------------------------------------
\* yahoo_chart: from the provider's series to chart_data

MaxSeries == 3      \* the provider's series has up to MaxSeries points

\* One point per trading day: timestamp (seconds), close, volume.  A JSON null
\* is <<>>, a number n is <<n>>.
SecondsPerDay == 86400
FirstStamp == 1700000000
Stamps(n) == [i \in 1 .. n |-> FirstStamp + (i - 1) * SecondsPerDay]
CloseValues == {<<>>, <<101>>, <<102>>}
VolumeValues == {<<>>, <<5>>}

\* datetime.fromtimestamp(t).strftime('%Y-%m-%d'): the day t falls on
\* (counted from the epoch, clock in UTC)
DateOf(t) == t \div SecondsPerDay

Shorter(m, n) == IF m < n THEN m ELSE n

\* closes = [c for c in close if c is not None]
\* volumes = [v if v is not None else 0 for v in volume]
\* dates = [... for t in timestamps[:len(closes)]]
\* chart_data = {'dates': dates, 'prices': closes, 'volumes': volumes[:len(closes)]}
ChartData(timestamps, close, volume) ==
    LET present == SelectSeq(close, LAMBDA c : c # <<>>)
        closes == [i \in DOMAIN present |-> present[i][1]]
        volumes == [i \in DOMAIN volume |->
                       IF volume[i] # <<>> THEN volume[i][1] ELSE 0]
        sliced == SubSeq(timestamps, 1, Shorter(Len(timestamps), Len(closes)))
        dates == [i \in DOMAIN sliced |-> DateOf(sliced[i])]
    IN [dates |-> dates, prices |-> closes,
        volumes |-> SubSeq(volumes, 1, Shorter(Len(volumes), Len(closes)))]

ChartKey == "yahoo_chart:A:1y:1d"

\* One call of yahoo_chart('A'): a cache hit; or the request raises or the
\* answer has no chart result (None, nothing stored); or the chart is built,
\* stored and returned.  <<>> is None, <<d>> the chart_data d.
CallYahooChart ==
    /\ IF CacheFresh(cache, ChartKey, now)
       THEN /\ chart' = [chart EXCEPT !.result = <<cache[ChartKey].data>>]
            /\ UNCHANGED cache
       ELSE \E answer \in {"raise", "empty", "chart"} :
            IF answer \in {"raise", "empty"}
            THEN /\ chart' = [timestamps |-> <<>>, close |-> <<>>,
                              volume |-> <<>>, result |-> <<>>]
                 /\ UNCHANGED cache
            ELSE \E n \in 0 .. MaxSeries :
                 \E close \in [1 .. n -> CloseValues],
                    volume \in [1 .. n -> VolumeValues] :
                    LET chart_data == ChartData(Stamps(n), close, volume) IN
                    /\ chart' = [timestamps |-> Stamps(n), close |-> close,
                                 volume |-> volume, result |-> <<chart_data>>]
                    /\ cache' = CacheStore(cache, ChartKey, now, chart_data)
    /\ UNCHANGED <<now, lookup, ledgerVars, fetch, pool, analytics, bucket>>

NextChart == CallYahooChart

SpecChart == Init /\ [][NextChart]_vars

---------------------------------------------------------------------------
\* get_portfolio_analytics: the sector distribution

\* SELECT stock_symbol, quantity, sector FROM portfolios WHERE user_id = %s:
\* the rows of an account.  process_transaction inserts a holding without a
\* sector (NULL, here "None"); the portfolio page fills it in from the profile.
HoldingRows(symbol) ==
    {<<>>} \cup
    {<<[stock_symbol |-> symbol, quantity |-> q, sector |-> sec]>> :
        q \in {1, 3}, sec \in {"None", "Technology"}}
PortfolioRows == {a \o b : a \in HoldingRows("A"), b \in HoldingRows("B")}

\* What the provider answers to the /quote of a held symbol (a call that never
\* returns leaves no response to look at)
AnalyticsQuoteOutcomes == {"quote", "quote_c0", "empty", "raise"}

\* for stock in portfolio: quote = finnhub_get(...); stock_value = ...;
\* total_value += stock_value; sector_distribution[sector] (+)= stock_value
RECURSIVE SumBySector(_, _, _, _)
SumBySector(rows, t, outcomes, acc) ==
    IF rows = <<>> \/ acc.raised THEN acc
    ELSE LET stock == Head(rows)
             r == FinnhubGet(acc.cache, FinnhubKey("/quote", stock.stock_symbol),
                             t, outcomes[stock.stock_symbol])
         IN IF r.result = "exception"
            THEN [acc EXCEPT !.cache = r.cache, !.raised = TRUE]
            ELSE LET current_price == Get(Json(r.result), "c", 0)
                     stock_value == current_price * stock.quantity
                     sector == stock.sector
                     dist == acc.sector_distribution
                 IN SumBySector(Tail(rows), t, outcomes,
                      [cache |-> r.cache,
                       total_value |-> acc.total_value + stock_value,
                       sector_distribution |->
                           IF sector \in DOMAIN dist
                           THEN [dist EXCEPT ![sector] = @ + stock_value]
                           ELSE (sector :> stock_value) @@ dist,
                       raised |-> FALSE])

\* round(x / total_value * 100, 2), in hundredths of a percent
PercentOf(x, total_value) == (2 * x * 10000 + total_value) \div (2 * total_value)

\* The handler: 401 without a login; 500 with the exception's text when
\* anything in the try block raises (a provider call, or the division by a
\* total_value of 0); else 200 with the percentages.
PortfolioAnalytics(c, t, session, portfolio, outcomes) ==
    IF session # "account"
    THEN [cache |-> c, status |-> 401, sector_distribution |-> <<>>,
          total_value |-> 0, provider_raised |-> FALSE]
    ELSE LET sums == SumBySector(portfolio, t, outcomes,
                        [cache |-> c, total_value |-> 0,
                         sector_distribution |-> <<>>, raised |-> FALSE])
             dist == sums.sector_distribution
         IN IF sums.raised \/ (DOMAIN dist # {} /\ sums.total_value = 0)
            THEN [cache |-> sums.cache, status |-> 500,
                  sector_distribution |-> <<>>,
                  total_value |-> sums.total_value,
                  provider_raised |-> sums.raised]
            ELSE [cache |-> sums.cache, status |-> 200,
                  sector_distribution |->
                      [sec \in DOMAIN dist |-> PercentOf(dist[sec], sums.total_value)],
                  total_value |-> sums.total_value,
                  provider_raised |-> FALSE]

GetPortfolioAnalytics ==
    \E session \in {"account", "anonymous"}, portfolio \in PortfolioRows,
       outcomes \in [Symbols -> AnalyticsQuoteOutcomes] :
        LET r == PortfolioAnalytics(cache, now, session, portfolio, outcomes) IN
        /\ cache' = r.cache
        /\ analytics' = [session |-> session, portfolio |-> portfolio,
                         status |-> r.status,
                         sector_distribution |-> r.sector_distribution,
                         total_value |-> r.total_value,
                         provider_raised |-> r.provider_raised]
        /\ UNCHANGED <<now, lookup, ledgerVars, fetch, pool, chart, bucket>>

NextAnalytics == GetPortfolioAnalytics

SpecAnalytics == Init /\ [][NextAnalytics]_vars

---------------------------------------------------------------------------
\* Calls of _market_cap_bucket

MaxCapSteps == 110      \* capitalizations up to MaxCapSteps * 100 million USD

\* None, and whole millions of USD: every hundred million from below zero up,
\* and the millions on either side of each rung
CapInputs ==
    {<<>>} \cup {<<k * 100>> : k \in -2 .. MaxCapSteps}
           \cup {<<m>> : m \in {-1, 1, 299, 301, 1999, 2001, 9999, 10001}}

CallMarketCapBucket ==
    \E market_cap_usd \in CapInputs :
        /\ bucket' = [market_cap_usd |-> market_cap_usd,
                      market_cap |-> MarketCapBucket(market_cap_usd)]
        /\ UNCHANGED <<ledgerVars, cacheVars, fetch, pool, chart, analytics>>

NextBucket == CallMarketCapBucket

SpecBucket == Init /\ [][NextBucket]_vars

---------------------------------------------------------------------------
\* get_dashboard_holdings: the average cost of a held symbol

\* SELECT COALESCE(SUM(price), 0), COALESCE(SUM(quantity), 0) FROM transactions
\* WHERE user_id = %s AND stock_symbol = %s AND transaction_type = 'buy'
RECURSIVE SumBuys(_, _, _)
SumBuys(rows, symbol, column) ==
    IF rows = <<>> THEN 0
    ELSE LET row == Head(rows)
             counted == /\ row.user_id = UserId
                        /\ row.stock_symbol = symbol
                        /\ row.transaction_type = "buy"
         IN (IF counted THEN row[column] ELSE 0) + SumBuys(Tail(rows), symbol, column)

\* avg_cost_per_share = (total_spent / total_bought) if total_bought > 0 else 0,
\* as the fraction num/den
AvgCostPerShare(db, symbol) ==
    LET total_spent == SumBuys(db.transactions, symbol, "price")
        total_bought == SumBuys(db.transactions, symbol, "quantity")
    IN IF total_bought > 0 THEN [num |-> total_spent, den |-> total_bought]
       ELSE [num |-> 0, den |-> 1]

---------------------------------------------------------------------------
\* Properties of the settlement handler (specification Spec)

dbVars == <<wallet_balance, portfolios, transactions>>
IsTrade(req) == req.transaction_type \in {"buy", "sell"}
HeldQuantity(pf, symbol) == IF symbol \in DOMAIN pf THEN pf[symbol] ELSE 0

\* C1: the wallet balance is never negative after a request completes.
BalanceNeverNegative == wallet_balance >= 0

\* What a settled trade must have done to the three tables.
FullyApplied(req) ==
    /\ Len(transactions') = Len(transactions) + 1
    /\ \A i \in 1 .. Len(transactions) : transactions'[i] = transactions[i]
    /\ wallet_balance' = IF req.transaction_type = "buy"
                         THEN wallet_balance - req.amount
                         ELSE wallet_balance + req.amount
    /\ \A s \in Symbols \ {req.symbol} :
          /\ (s \in DOMAIN portfolios') = (s \in DOMAIN portfolios)
          /\ s \in DOMAIN portfolios => portfolios'[s] = portfolios[s]
    /\ LET old == HeldQuantity(portfolios, req.symbol) * QScale
           new == IF req.transaction_type = "buy" THEN old + req.quantity
                  ELSE old - req.quantity
       IN IF req.transaction_type = "sell" /\ new <= 0
          THEN req.symbol \notin DOMAIN portfolios'
          ELSE /\ req.symbol \in DOMAIN portfolios'
               /\ portfolios'[req.symbol] = RoundToInt(new)

\* C3: a call is all-or-nothing.  A call in which a statement or the commit
\* raised answers "Transaction failed"; a call that does not answer success
\* leaves balance, holdings and ledger as they were; a buy or sell that
\* answers success has updated the balance, inserted the transaction and
\* upserted or deleted the holding.
SettlementAtomic ==
    [][LET r == last' IN
        /\ r.raised => r.resp = TransactionFailed
        /\ r.resp # Success => UNCHANGED dbVars
        /\ (r.resp = Success /\ IsTrade(r.req)) => FullyApplied(r.req)]_vars

\* C3 witness: a statement raised after the transaction had written, and the
\* call answered "Transaction failed".
RolledBackAfterWrites ==
    last.raised /\ last.dirty /\ last.resp = TransactionFailed

\* C4: a logged-in account's sell of a symbol that is not held, or of more than is held, leaves
\* balance, holdings and ledger unchanged and, unless the database itself
\* failed, answers "Insufficient stock quantity".
SellBeyondHoldingRejected ==
    [][LET r == last' IN
        (/\ r.req.session = "account"
         /\ r.req.transaction_type = "sell"
         /\ \/ r.req.symbol \notin DOMAIN portfolios
            \/ portfolios[r.req.symbol] * QScale < r.req.quantity)
        => /\ UNCHANGED dbVars
           /\ ~r.raised => r.resp = InsufficientStock]_vars

\* C4 witness: a sell of more than the held quantity of a held symbol was
\* answered "Insufficient stock quantity".
SellOfTooManyRejected ==
    /\ last.req.transaction_type = "sell"
    /\ last.resp = InsufficientStock
    /\ last.req.symbol \in DOMAIN portfolios
    /\ portfolios[last.req.symbol] * QScale < last.req.quantity

\* C5: a logged-in account's buy whose amount exceeds the balance answers "Insufficient balance"
\* and leaves balance, holdings and ledger unchanged.
BuyBeyondBalanceRejected ==
    [][LET r == last' IN
        (/\ r.req.session = "account"
         /\ r.req.transaction_type = "buy"
         /\ r.req.amount > wallet_balance)
        => /\ r.resp = InsufficientBalance
           /\ UNCHANGED dbVars]_vars

\* C5 witness: a buy for more than the balance was answered
\* "Insufficient balance" on an account that has traded before.
BuyOfTooMuchRejected ==
    /\ last.req.transaction_type = "buy"
    /\ last.req.amount > wallet_balance
    /\ last.resp = InsufficientBalance
    /\ transactions # <<>>

\* settle's preconditions (quantity > 0, amount > 0) on one request, and on
\* every trade settled so far (every quantity fed in is above zero).
MeetsPreconditions(req) == req.quantity > 0 /\ req.amount > 0
SettledMetPreconditions ==
    \A i \in 1 .. Len(transactions) : transactions[i].price > 0

\* C6: a successful buy immediately followed by a successful sell of the same
\* symbol, quantity and amount restores the balance and the holdings that
\* preceded the buy (stated for a quantity and an amount above zero).
BuyThenSellRoundTrip ==
    [][(/\ last.req.transaction_type = "buy"
        /\ MeetsPreconditions(last.req)
        /\ last.resp = Success
        /\ last'.req = [last.req EXCEPT !.transaction_type = "sell"]
        /\ last'.resp = Success)
       => /\ wallet_balance' = prev.wallet_balance
          /\ portfolios' = prev.portfolios]_vars

\* C7: for every held symbol the average cost per share is the sum of the
\* amounts of its buy transactions over the sum of their quantities (stated
\* for trades whose quantity and amount are above zero).
AvgCostIsRatio ==
    SettledMetPreconditions =>
    \A s \in DOMAIN portfolios :
        LET avg == AvgCostPerShare(DB, s) IN
        avg.num * SumBuys(transactions, s, "quantity")
            = SumBuys(transactions, s, "price") * avg.den

\* C7, second half: a sell that leaves the holding in place leaves the
\* average cost of every symbol as it was.
AvgCostStableUnderSells ==
    [][(last'.req.transaction_type = "sell" /\ last'.resp = Success)
       => \A s \in Symbols :
            AvgCostPerShare(DB, s)
              = AvgCostPerShare([DB EXCEPT !.transactions = transactions'], s)]_vars

\* C8: every holding record has a quantity above zero (stated for trades
\* whose quantity and amount are above zero).
HoldingsPositive ==
    SettledMetPreconditions => \A s \in DOMAIN portfolios : portfolios[s] > 0

\* The ledger entry a settled request is to leave: the call's account,
\* symbol, side, quantity (in 1/QScale shares) and amount.
IsEntryOf(row, req) ==
    /\ row.user_id = UserId
    /\ row.stock_symbol = req.symbol
    /\ row.transaction_type = req.transaction_type
    /\ row.quantity * QScale = req.quantity
    /\ row.price = req.amount

IsPrefix(s, t) == Len(s) <= Len(t) /\ \A i \in 1 .. Len(s) : t[i] = s[i]

\* C9: the ledger only grows at its end, and each successful buy or sell
\* appends exactly one entry carrying the call's account, symbol, side,
\* quantity and amount (the entry's content stated for a quantity and an
\* amount above zero).
LedgerAppendOnly ==
    [][/\ IsPrefix(transactions, transactions')
       /\ (last'.resp = Success /\ IsTrade(last'.req) /\ MeetsPreconditions(last'.req))
          => /\ Len(transactions') = Len(transactions) + 1
             /\ IsEntryOf(transactions'[Len(transactions')], last'.req)]_vars

\* C9, without the quantity: the ledger before a step is a prefix of the
\* ledger after it, and a settled trade appends one entry with the call's
\* symbol, side and amount and the quantity as the INT column stores it.
LedgerGrowsByStoredEntry ==
    [][/\ IsPrefix(transactions, transactions')
       /\ (last'.resp = Success /\ IsTrade(last'.req))
          => /\ Len(transactions') = Len(transactions) + 1
             /\ LET row == transactions'[Len(transactions')] IN
                 /\ row.stock_symbol = last'.req.symbol
                 /\ row.transaction_type = last'.req.transaction_type
                 /\ row.quantity = RoundToInt(last'.req.quantity)
                 /\ row.price = last'.req.amount
       /\ (last'.resp # Success \/ ~IsTrade(last'.req))
          => transactions' = transactions]_vars

---------------------------------------------------------------------------
\* Properties of requests handled at the same time (specification
\* SpecConcurrent)

\* Sell amounts minus buy amounts of the ledger.
RECURSIVE NetOfLedger(_)
NetOfLedger(rows) ==
    IF rows = <<>> THEN 0
    ELSE (IF Head(rows).transaction_type = "sell" THEN Head(rows).price
          ELSE -Head(rows).price) + NetOfLedger(Tail(rows))

\* C2: once the requests in flight have completed, the balance is the seed
\* balance plus all settled sell amounts minus all settled buy amounts, as
\* after some serial order of the calls.
BalanceIsSeedPlusLedger ==
    (\A w \in WorkerIds : workers[w].pc = "idle")
    => wallet_balance = SeedBalance + NetOfLedger(transactions)

---------------------------------------------------------------------------
\* Properties of the cached lookups (specification SpecCache)

IsLookupStep == now' = now

\* C10: of two sequential lookups of the same key less than CACHE_TTL seconds
\* apart, the first of which issued the fetch, the second issues none and
\* returns the value the first returned; a lookup made when the entry is
\* CACHE_TTL seconds old or older issues a fetch and replaces the entry.
OneFetchPerWindow ==
    [][IsLookupStep =>
        /\ (/\ lookup.key = lookup'.key
            /\ lookup.fetched
            /\ lookup'.at - lookup.at < CACHE_TTL)
           => (~lookup'.fetched /\ lookup'.result = lookup.result)
        /\ (/\ lookup'.key \in DOMAIN cache
            /\ now - cache[lookup'.key].timestamp >= CACHE_TTL)
           => /\ lookup'.fetched
              /\ cache'[lookup'.key].timestamp = now]_vars

\* C10 as the code has it: the second of two such lookups issues no fetch and
\* returns the stored value when the first one stored what it fetched (for
\* finnhub_get any parsed answer, for yahoo_chart an answer with a chart),
\* and fetches again when the first stored nothing; a lookup made when the
\* entry is CACHE_TTL seconds old or older issues a fetch, and the entry is
\* replaced when that fetch is stored and left as it was when it is not.
OneFetchPerWindowWhenStored ==
    [][IsLookupStep =>
        /\ (/\ lookup.key = lookup'.key
            /\ lookup.fetched
            /\ lookup'.at - lookup.at < CACHE_TTL)
           => IF lookup.stored
              THEN ~lookup'.fetched /\ lookup'.result = lookup.result
              ELSE lookup'.fetched
        /\ (/\ lookup'.key \in DOMAIN cache
            /\ now - cache[lookup'.key].timestamp >= CACHE_TTL)
           => /\ lookup'.fetched
              /\ IF lookup'.stored
                 THEN cache'[lookup'.key] =
                        [timestamp |-> now, data |-> lookup'.result]
                 ELSE cache' = cache
        /\ lookup'.stored <=>
             /\ lookup'.fetched
             /\ lookup'.result \in
                  (IF lookup'.fn = "yahoo_chart" THEN Payloads
                   ELSE Payloads \cup {"empty"})]_vars

\* C10 witness: a lookup made CACHE_TTL - 1 seconds after the fetch that
\* stored the entry was answered from the cache.
HitJustInsideWindow ==
    /\ lookup.key \in DOMAIN cache
    /\ ~lookup.fetched
    /\ lookup.at - cache[lookup.key].timestamp = CACHE_TTL - 1
    /\ lookup.result = cache[lookup.key].data

---------------------------------------------------------------------------
\* Properties of fetch_stock_data (specifications SpecFetch, SpecFetchFair)

\* The task for symbol s got a quote with a current price and a previous
\* close other than zero, and raised nothing.
FetchedWell(s) ==
    \E i \in DOMAIN fetch.futures :
        LET task == fetch.futures[i]
            quote == Json(task.quote)
        IN /\ task.symbol = s
           /\ ~task.raised
           /\ task.quote # "none"
           /\ "c" \in DOMAIN quote /\ quote.c # 0
           /\ "pc" \in DOMAIN quote /\ quote.pc # 0

RecordsOf(s) == {k \in DOMAIN fetch.stocks_data : fetch.stocks_data[k].symbol = s}

\* C11: no call of fetch_stock_data raises, and what a call returns holds
\* exactly one record for each requested symbol whose quote has a non-zero
\* current price and previous close and whose task raised nothing, and no
\* record for any other symbol.
FetchReturnsTheGoodSymbols ==
    /\ fetch.pc # "raised"
    /\ ~fetch.raised
    /\ fetch.pc = "returned" =>
         \A s \in Symbols :
             Cardinality(RecordsOf(s)) = IF FetchedWell(s) THEN 1 ELSE 0

\* C11 witness: the call for [A, B] returned exactly the record of A after
\* the task for B raised.
OnlyARecordAfterBFailed ==
    /\ fetch.pc = "returned"
    /\ fetch.stock_symbols = <<"A", "B">>
    /\ fetch.futures[2].raised
    /\ Len(fetch.stocks_data) = 1
    /\ fetch.stocks_data[1].symbol = "A"

\* C12: every call of fetch_stock_data eventually returns (or raises).
FetchEventuallyReturns ==
    (fetch.pc = "gathering") ~> (fetch.pc \in {"returned", "raised"})

---------------------------------------------------------------------------
\* Properties of yahoo_chart's series (specification SpecChart)

\* C13: in every chart_data returned, dates and prices have the same length
\* and prices[i] is the close the provider recorded at the timestamp that
\* renders as dates[i].
DatesAlignWithPrices ==
    chart.result # <<>> =>
        LET d == chart.result[1] IN
        /\ Len(d.dates) = Len(d.prices)
        /\ \A i \in DOMAIN d.prices :
              \E j \in DOMAIN chart.timestamps :
                  /\ DateOf(chart.timestamps[j]) = d.dates[i]
                  /\ chart.close[j] = <<d.prices[i]>>

---------------------------------------------------------------------------
\* Properties of get_portfolio_analytics (specification SpecAnalytics)

\* The current value of the rows of one sector, at the prices in the cache
\* after the call.
RECURSIVE ValueOfSector(_, _)
ValueOfSector(rows, sec) ==
    IF rows = <<>> THEN 0
    ELSE (IF Head(rows).sector = sec
          THEN Get(Json(cache[FinnhubKey("/quote", Head(rows).stock_symbol)].data),
                   "c", 0) * Head(rows).quantity
          ELSE 0) + ValueOfSector(Tail(rows), sec)

\* C14: for a logged-in account whose quotes all came in, a total value above
\* zero gives each held sector its share of the total in percent, and a total
\* value of zero (nothing held, or everything held priced at 0) gives an
\* empty distribution and no error.
SectorShareOrEmpty ==
    (analytics.session = "account" /\ ~analytics.provider_raised) =>
        IF analytics.total_value = 0
        THEN analytics.status = 200 /\ analytics.sector_distribution = <<>>
        ELSE /\ analytics.status = 200
             /\ DOMAIN analytics.sector_distribution =
                  {analytics.portfolio[k].sector : k \in DOMAIN analytics.portfolio}
             /\ \A sec \in DOMAIN analytics.sector_distribution :
                  analytics.sector_distribution[sec] =
                    PercentOf(ValueOfSector(analytics.portfolio, sec),
                              analytics.total_value)

---------------------------------------------------------------------------
\* Properties of _market_cap_bucket (specification SpecBucket)

\* C15: the bucket of a capitalization (in millions of USD) is 'N/A' when it
\* is missing or not above zero, 'Large cap' from 10e9, 'Mid cap' from 2e9 to
\* below 10e9, 'Small cap' from 300e6 to below 2e9, and 'Micro cap' for any
\* other value above zero; 5e9 is 'Mid cap', 500e6 'Small cap', 0 'N/A'.
BucketIsTheLadder ==
    bucket.market_cap # "none" =>
        LET missing == bucket.market_cap_usd = <<>>
            m == IF missing THEN 0 ELSE bucket.market_cap_usd[1]
            b == bucket.market_cap
        IN /\ (b = "N/A") <=> (missing \/ m <= 0)
           /\ (b = "Large cap") <=> (~missing /\ m >= 10000)
           /\ (b = "Mid cap") <=> (~missing /\ m >= 2000 /\ m < 10000)
           /\ (b = "Small cap") <=> (~missing /\ m >= 300 /\ m < 2000)
           /\ (b = "Micro cap") <=> (~missing /\ m > 0 /\ m < 300)
           /\ (~missing /\ m = 5000) => b = "Mid cap"
           /\ (~missing /\ m = 500) => b = "Small cap"
           /\ (~missing /\ m = 0) => b = "N/A"

\* C15 witness: a capitalization of exactly 10e9 was bucketed 'Large cap'.
TenBillionIsLarge ==
    bucket.market_cap_usd = <<10000>> /\ bucket.market_cap = "Large cap"

---------------------------------------------------------------------------
\* Properties of the executor of fetch_stock_data (specification SpecPool)

\* C16: during a call for n symbols no more than n tasks are dispatched, all
\* n have been dispatched once the call gathers results and all n have
\* completed when it returns, and the number of tasks executing at the same
\* time never exceeds min(15, n), nor 1 when n = 0.
AtMostFifteenAtOnce ==
    LET n == pool.symbols
        limit == IF n = 0 THEN 1 ELSE IF n < 15 THEN n ELSE 15
    IN /\ pool.executing <= limit
       /\ pool.pc # "idle" => pool.max_workers = limit
       /\ pool.submitted <= n
       /\ pool.pc \in {"gathering", "returned"} => pool.submitted = n
       /\ pool.pc = "returned" => pool.completed = n /\ pool.executing = 0

\* C16 witness: of 16 symbols, 15 tasks execute and one waits in the queue.
FifteenRunOneWaits ==
    pool.symbols = 16 /\ pool.executing = 15 /\ Queued(pool) = 1

---------------------------------------------------------------------------
\* Failed and empty fetches in the cache (specification SpecCache)

\* The last lookup fetched and the fetch failed (the request or the parsing
\* raised) or came back empty.
FailedOrEmpty(l) == l.fetched /\ l.result \in {"exception", "None", "empty"}

\* C17: a fetch that failed and a fetch that returned empty are both stored
\* under the key, so a second lookup of the key less than CACHE_TTL seconds
\* later returns that outcome without a fetch.
FailedAndEmptyBothCached ==
    [][(/\ IsLookupStep
        /\ lookup.key = lookup'.key
        /\ FailedOrEmpty(lookup)
        /\ lookup'.at - lookup.at < CACHE_TTL)
       => /\ lookup.stored
          /\ ~lookup'.fetched
          /\ lookup'.result = lookup.result]_vars

\* C17 as the code has it: finnhub_get stores an empty answer, and a second
\* lookup within CACHE_TTL seconds returns it without a fetch; a fetch that
\* raised in finnhub_get, and a fetch that raised or came back empty in
\* yahoo_chart, stores nothing and leaves the cache as it was, and the second
\* lookup fetches again.
OnlyParsedAnswersCached ==
    [][IsLookupStep =>
        /\ (/\ lookup.key = lookup'.key
            /\ FailedOrEmpty(lookup)
            /\ lookup'.at - lookup.at < CACHE_TTL)
           => IF lookup.fn = "finnhub_get" /\ lookup.result = "empty"
              THEN lookup.stored /\ ~lookup'.fetched /\ lookup'.result = "empty"
              ELSE ~lookup.stored /\ lookup'.fetched
        /\ (lookup'.fetched /\ lookup'.result \in {"exception", "None"})
           => cache' = cache]_vars

\* C17 witness: an empty answer stored by finnhub_get was returned from the
\* cache CACHE_TTL - 1 seconds later.
EmptyAnswerServedFromCache ==
    /\ lookup.fn = "finnhub_get"
    /\ ~lookup.fetched
    /\ lookup.result = "empty"
    /\ lookup.at - cache[lookup.key].timestamp = CACHE_TTL - 1

---------------------------------------------------------------------------
\* Success of process_transaction (specification Spec)

\* C18: a call from a logged-in account with a row in users that answers
\* success has settled a trade: the ledger grew by exactly one entry, the
\* balance moved by the amount and the symbol's holding by the quantity (as
\* the quantity column stores it); so a call that changes nothing, whatever
\* its transaction_type, does not answer success.
SuccessMeansSettled ==
    [][(last'.req.session = "account" /\ last'.resp = Success)
       => /\ FullyApplied(last'.req)
          /\ ~UNCHANGED dbVars]_vars

====
